---------------------------- MODULE Spec2Model ----------------------------
(***************************************************************************)
(* Reference resolution and flattening of job documents (src/Getdata.py),  *)
(* the batch entry point main, and the date range of the dashboard script  *)
(* (src/app.py).                                                           *)
(*                                                                         *)
(* Field and collection names are sequences of one-character strings, so   *)
(* that endswith, slicing, upper() and lower() are computed character by   *)
(* character.  A document is an insertion-ordered dict: a sequence of      *)
(* <<key, value>> pairs with pairwise distinct keys.  A value is a record  *)
(* with one field that names its Python type.                              *)
(***************************************************************************)
EXTENDS Integers, Sequences, FiniteSets, TLC

\* ------------------------------------------------------------------ bounds

\* Largest number of documents in the Job collection.
MaxJobs == 2

\* Largest number of fields, besides _id, of the first Job document.
MaxFields == 2

\* ------------------------------------------------------------------ values

ObjectId(x) == [oid |-> x]
Text(x) == [str |-> x]
Number(x) == [int |-> x]
ListOf(s) == [list |-> s]
Dict(d) == [doc |-> d]

\* isinstance(value, ObjectId)
IsObjectId(value) == DOMAIN value = {"oid"}

\* isinstance(value, list)
IsList(value) == DOMAIN value = {"list"}

\* IsDict taking an empty dict, which is falsy, for no dict.
IsNonEmptyDict(value) == DOMAIN value = {"doc"} /\ value.doc # <<>>

\* isinstance(value, dict)
IsDict(value) == DOMAIN value = {"doc"}

\* ------------------------------------------------------------------- dicts

\* doc.keys()
Keys(d) == {d[n][1] : n \in DOMAIN d}

\* key in doc
Has(d, key) == key \in Keys(d)

\* doc[key]
Get(d, key) == d[CHOOSE n \in DOMAIN d : d[n][1] = key][2]

\* doc[key] = value: an existing key keeps its place, a new key goes last.
SetItem(d, key, value) ==
    IF Has(d, key)
    THEN [n \in DOMAIN d |-> IF d[n][1] = key THEN <<key, value>> ELSE d[n]]
    ELSE Append(d, <<key, value>>)

\* ----------------------------------------------------------------- strings

LowerChars == <<"a","b","c","d","e","f","g","h","i","j","k","l","m",
                "n","o","p","q","r","s","t","u","v","w","x","y","z">>
UpperChars == <<"A","B","C","D","E","F","G","H","I","J","K","L","M",
                "N","O","P","Q","R","S","T","U","V","W","X","Y","Z">>

\* str.upper() of one character
UpperChar(c) ==
    IF \E n \in DOMAIN LowerChars : LowerChars[n] = c
    THEN UpperChars[CHOOSE n \in DOMAIN LowerChars : LowerChars[n] = c]
    ELSE c

\* str.lower() of one character
LowerChar(c) ==
    IF \E n \in DOMAIN UpperChars : UpperChars[n] = c
    THEN LowerChars[CHOOSE n \in DOMAIN UpperChars : UpperChars[n] = c]
    ELSE c

\* str.lower()
Lower(s) == [n \in DOMAIN s |-> LowerChar(s[n])]

\* str.endswith(suffix)
EndsWith(s, suffix) ==
    /\ Len(s) >= Len(suffix)
    /\ SubSeq(s, Len(s) - Len(suffix) + 1, Len(s)) = suffix

\* s[:-n]
DropLast(s, n) == SubSeq(s, 1, Len(s) - n)

\* s[:n]
Take(s, n) == SubSeq(s, 1, IF n < Len(s) THEN n ELSE Len(s))

\* ------------------------------------------------------- naming convention

\* IsRefKey with the suffixes compared without regard to case.
IsRefKeyAnyCase(key) ==
    \/ EndsWith(Lower(key), <<"i","d">>) /\ key # <<"_","i","d">>
    \/ EndsWith(Lower(key), <<"i","d","s">>)

\* The fields the loops do not skip (lines 51 and 87).
IsRefKey(key) ==
    \/ EndsWith(key, <<"I","D">>) /\ key # <<"_","i","d">>
    \/ EndsWith(key, <<"I","D","s">>)

\* is_array (lines 55-60)
IsArrayKey(key) == EndsWith(key, <<"I","D","s">>)

\* base_name (lines 56 and 59)
BaseName(key) == IF IsArrayKey(key) THEN DropLast(key, 3) ELSE DropLast(key, 2)

\* collection_name (line 63); base_name is not empty here
CollectionName(base_name) == <<UpperChar(base_name[1])>> \o Tail(base_name)

\* FieldName attaching under the name of the reference field itself.
FieldNameOfKey(base_name, is_array) ==
    base_name \o (IF is_array THEN <<"I","D","s">> ELSE <<"I","D">>)

\* field_name (lines 74 and 81)
FieldName(base_name, is_array) ==
    IF is_array THEN Lower(base_name) \o <<"s">> ELSE Lower(base_name)


\* ---------------------------------------------------------------- database

\* A stored document: _id first, then its fields.
Document(id, fields) == << <<<<"_","i","d">>, ObjectId(id)>> >> \o fields

Customer_c1 == Document("c1", << <<<<"n","a","m","e">>, Text("Acme")>> >>)

Customer_c2 ==
    Document("c2", << <<<<"n","a","m","e">>, Text("Bolt")>>,
                      <<<<"j","o","b","L","o","c","a","t","i","o","n","I","D">>, ObjectId("loc1")>>,
                      <<<<"t","e","c","h","n","i","c","i","a","n","P","r","o","f","i","l","e","I","D","s">>, ListOf(<<ObjectId("t1")>>)>> >>)

JobLocation_loc1 ==
    Document("loc1", << <<<<"c","u","s","t","o","m","e","r","I","D">>, ObjectId("c1")>>,
                        <<<<"n","a","m","e">>, Text("Site A")>> >>)

JobLocation_loc2 ==
    Document("loc2", << <<<<"n","a","m","e">>, Text("Site B")>>,
                        <<<<"c","u","s","t","o","m","e","r","I","D">>, ObjectId("c2")>>,
                        <<<<"t","e","c","h","n","i","c","i","a","n","P","r","o","f","i","l","e","I","D","s">>,
                          ListOf(<<ObjectId("t3"), ObjectId("t1"), ObjectId("t2")>>)>>,
                        <<<<"r","e","g","i","o","n","I","D","s">>, ListOf(<<ObjectId("r1")>>)>>,
                        <<<<"j","o","b","L","o","c","a","t","i","o","n","I","D">>, Text("legacy")>>,
                        <<<<"c","u","s","t","o","m","e","r","I","D","s">>, ObjectId("c1")>>,
                        <<<<"t","e","c","h","n","i","c","i","a","n","P","r","o","f","i","l","e","I","D">>, ObjectId("t9")>> >>)

JobLocation_loc4 ==
    Document("loc4", << <<<<"c","u","s","t","o","m","e","r","I","D">>, ObjectId("c1")>>,
                        <<<<"I","D","s">>, ListOf(<<ObjectId("c1")>>)>> >>)

TechnicianProfile_t1 == Document("t1", << <<<<"n","a","m","e">>, Text("Tee")>> >>)

TechnicianProfile_t3 ==
    Document("t3", << <<<<"n","a","m","e">>, Text("Uma")>>,
                      <<<<"c","u","s","t","o","m","e","r","I","D">>, ObjectId("c1")>> >>)

\* The fields a Job document may hold besides _id, in document order.
RootFields ==
    << <<<<"n","o">>, Number(7)>>,
       <<<<"c","u","s","t","o","m","e","r","I","d">>, ObjectId("c1")>>,
       <<<<"j","o","b","l","o","c","a","t","i","o","n">>, Text("x")>>,
       <<<<"j","o","b","L","o","c","a","t","i","o","n","I","D">>, ObjectId("loc1")>>,
       <<<<"j","o","b","L","o","c","a","t","i","o","n","I","D">>, ObjectId("loc2")>>,
       <<<<"j","o","b","L","o","c","a","t","i","o","n","I","D">>, ObjectId("loc4")>>,
       <<<<"j","o","b","L","o","c","a","t","i","o","n","I","D">>, ObjectId("loc9")>>,
       <<<<"j","o","b","L","o","c","a","t","i","o","n","I","D">>, Text("loc1")>>,
       <<<<"J","o","b","L","o","c","a","t","i","o","n","I","D">>, ObjectId("loc2")>>,
       <<<<"c","u","s","t","o","m","e","r","I","D">>, ObjectId("c2")>>,
       <<<<"t","e","c","h","n","i","c","i","a","n","P","r","o","f","i","l","e","I","D","s">>, ListOf(<<ObjectId("t1"), ObjectId("t2")>>)>>,
       <<<<"t","e","c","h","n","i","c","i","a","n","P","r","o","f","i","l","e","I","D","s">>, ListOf(<<ObjectId("t3"), ObjectId("t1")>>)>>,
       <<<<"t","e","c","h","n","i","c","i","a","n","P","r","o","f","i","l","e","I","D","s">>, ListOf(<<ObjectId("t2")>>)>>,
       <<<<"t","e","c","h","n","i","c","i","a","n","P","r","o","f","i","l","e","I","D","s">>, ObjectId("t1")>>,
       <<<<"t","e","c","h","n","i","c","i","a","n","P","r","o","f","i","l","e","I","D","s">>, ListOf(<<ObjectId("t1"), Text("x")>>)>>,
       <<<<"r","e","g","i","o","n","I","D">>, ObjectId("r1")>>,
       <<<<"r","e","g","i","o","n","I","D","s">>, ListOf(<<ObjectId("r1")>>)>>,
       <<<<"I","D">>, ObjectId("loc1")>> >>

\* The fields of RootFields at the positions S, in document order.
FieldsAt(S) ==
    SelectSeq(RootFields, LAMBDA f : \E n \in S : RootFields[n] = f)

\* The field lists of the first Job document: at most MaxFields fields with
\* pairwise distinct keys.
Bodies ==
    {FieldsAt(S) : S \in {T \in SUBSET DOMAIN RootFields :
        /\ Cardinality(T) <= MaxFields
        /\ \A m, n \in T : m # n => RootFields[m][1] # RootFields[n][1]}}

\* The field lists of the Job documents after the first.
SiblingBodies ==
    { << <<<<"n","o">>, Number(8)>> >>,
      << <<<<"j","o","b","L","o","c","a","t","i","o","n","I","D">>, ObjectId("loc1")>> >> }

\* The i-th Job document.
JobDocument(n, fields) ==
    Document(IF n = 1 THEN "j1" ELSE IF n = 2 THEN "j2" ELSE "j3", fields)

\* The contents the Job collection may have.
JobCollections ==
    {<<>>} \cup
    UNION {{[n \in 1..len |-> JobDocument(n, IF n = 1 THEN b ELSE s[n - 1])] :
              b \in Bodies, s \in [1..(len - 1) -> SiblingBodies]} :
           len \in 1..MaxJobs}

\* The database holding the Job documents `docs`.
Database(docs) ==
    (<<"J","o","b">> :> docs)
    @@ (<<"J","o","b","L","o","c","a","t","i","o","n">> :> <<JobLocation_loc1, JobLocation_loc2, JobLocation_loc4>>)
    @@ (<<"C","u","s","t","o","m","e","r">> :> <<Customer_c1, Customer_c2>>)
    @@ (<<"T","e","c","h","n","i","c","i","a","n","P","r","o","f","i","l","e">> :> <<TechnicianProfile_t1, TechnicianProfile_t3>>)

\* ------------------------------------------------------------------- state

VARIABLES
    db,          \* collection name -> documents
    client,      \* main's connection: "none", "open" or "closed"
    limit,       \* the limit argument of get_flattened_job_data
    pc,          \* in get_flattened_job_data: "start", "job", "l1", "l2",
                 \* "done", "raised"; in main: "main", "connected",
                 \* "listed", "absent", "flat", "csv", "json", "exit",
                 \* "failed"; "app" in a session of app.py
    jobs,        \* the root documents, augmented in place
    i,           \* position of `job` in jobs
    items,       \* what is left of list(job.items())
    field_name,  \* the field of job that holds level1_doc
    level1_doc,  \* the level-1 document being processed
    l1_items,    \* what is left of list(level1_doc.items())
    calls,       \* the lookups issued so far
    writes,      \* the fields attached so far
    returned,    \* the value returned
    err,         \* the exception raised in get_flattened_job_data, "" if none
    rows,        \* main's flattened_data
    csv_file,    \* flattened_jobs.csv: <<>> until written, then <<contents>>
    json_file,   \* jobs_with_relationships.json, likewise
    out,         \* the lines printed
    today,            \* app.py: datetime.now().date() of the session
    start_date_input, \* app.py: the value held by the Start Date input
    end_date_input,   \* app.py: the value held by the End Date input
    run,              \* app.py: what caused the latest script run: "open",
                      \* "input", "click", "rerun", "refresh"; "" before
                      \* the first run
    clicked,          \* app.py: the Quick Select button clicked last
    rerun,            \* app.py: st.experimental_rerun() has asked for a
                      \* script run that has not been made yet
    start_date,       \* app.py: start_date where the latest run ended
    end_date,         \* app.py: end_date where the latest run ended
    selected_period,  \* app.py: the Selected Period the latest run wrote
    loaded            \* app.py: the periods the latest run loaded data for

getdata_vars ==
    <<db, client, limit, pc, jobs, i, items, field_name, level1_doc,
      l1_items, calls, writes, returned, err, rows, csv_file, json_file, out>>

app_vars ==
    <<today, start_date_input, end_date_input, run, clicked, rerun,
      start_date, end_date, selected_period, loaded>>

vars == <<getdata_vars, app_vars>>

\* The dashboard script is not part of the run.
AppAbsent ==
    /\ today = <<>>
    /\ start_date_input = <<>>
    /\ end_date_input = <<>>
    /\ run = ""
    /\ clicked = ""
    /\ rerun = FALSE
    /\ start_date = <<>>
    /\ end_date = <<>>
    /\ selected_period = <<>>
    /\ loaded = <<>>


Init ==
    /\ db \in {Database(docs) : docs \in JobCollections}
    /\ client = "open"
    /\ limit = 0
    /\ pc = "start"
    /\ jobs = <<>>
    /\ i = 0
    /\ items = <<>>
    /\ field_name = <<>>
    /\ level1_doc = <<>>
    /\ l1_items = <<>>
    /\ calls = <<>>
    /\ writes = <<>>
    /\ returned = <<>>
    /\ err = ""
    /\ rows = <<>>
    /\ csv_file = <<>>
    /\ json_file = <<>>
    /\ out = <<>>
    /\ AppAbsent

\* ---------------------------------------------------------------- accessor

\* db.list_collection_names()
list_collection_names == DOMAIN db

\* db[collection_name], empty for a collection that does not exist
Collection(collection_name) ==
    IF collection_name \in DOMAIN db THEN db[collection_name] ELSE <<>>

\* The documents of a collection whose _id is one of ids.
Matching(collection_name, ids) ==
    SelectSeq(Collection(collection_name),
              LAMBDA d : \E n \in DOMAIN ids : ids[n] = Get(d, <<"_","i","d">>))

\* The orders in which a cursor may return the documents docs.
Orders(docs) ==
    {[n \in DOMAIN docs |-> docs[p[n]]] :
        p \in {q \in [DOMAIN docs -> DOMAIN docs] :
                 \A m, n \in DOMAIN docs : m # n => q[m] # q[n]}}

\* Find returning no more than the first document of the cursor.
FindFirstOnly(collection_name, ids) ==
    {Take(docs, 1) : docs \in Orders(Matching(collection_name, ids))}

\* list(db[collection_name].find({"_id": {"$in": ids}})): the possible results
Find(collection_name, ids) == Orders(Matching(collection_name, ids))

\* FindOne with an empty filter.
FindOneAny(collection_name, id) == Take(Collection(collection_name), 1)

\* db[collection_name].find_one({"_id": id}): <<>> for None, else <<document>>
FindOne(collection_name, id) ==
    Take(Matching(collection_name, <<id>>), 1)

\* db.Job.aggregate([{"$limit": limit}])
Aggregate(lim) ==
    Take(Collection(<<"J","o","b">>), lim)

\* CollectionExists without the check.
CollectionExistsAlways(collection_name) == TRUE

\* collection_name in db.list_collection_names() (lines 66 and 102)
CollectionExists(collection_name) == collection_name \in list_collection_names

\* ------------------------------------------------------ exception handling

\* Catches for a handler that catches nothing the accessor raises.
CatchesNothing(e) == FALSE

\* except Exception (line 121)
Catches(e) == TRUE

\* OnException returning the root documents resolved before the exception.
OnExceptionPartial(js, n) == SubSeq(js, 1, n - 1)

\* return [] (line 123); js are the root documents, n the one being processed
OnException(js, n) == <<>>

\* Raise with the lookups of a field in a try block of their own: a lookup that
\* raises is recorded and the loop goes on with the next field.
RaiseUnlessLookup(e) ==
    IF e \in {"find", "find_one"}
    THEN /\ err' = e
         /\ IF pc = "l1"
            THEN items' = Tail(items) /\ UNCHANGED l1_items
            ELSE l1_items' = Tail(l1_items) /\ UNCHANGED items
         /\ UNCHANGED <<app_vars, db, client, limit, pc, jobs, i, field_name, level1_doc, calls,
                        writes, returned, rows,
                        csv_file, json_file, out>>
    ELSE /\ err' = e
         /\ pc' = "done"
         /\ returned' = <<>>
         /\ UNCHANGED <<app_vars, db, client, limit, jobs, i, items, field_name, level1_doc,
                        l1_items, calls, writes, rows,
                        csv_file, json_file, out>>

\* A printed line.
Line(text, arg) == [text |-> text, arg |-> arg]

\* print(f"Error executing aggregation: {e}") (line 122) when the exception is
\* caught there, print(f"Error: {e}") of main (line 293) when it is not
Printed(e) ==
    IF Catches(e)
    THEN Append(out, Line("Error executing aggregation", e))
    ELSE Append(out, Line("Error", e))

\* An exception e leaves the try block.
Raise(e) ==
    /\ err' = e
    /\ pc' = IF Catches(e) THEN "done" ELSE "raised"
    /\ returned' = IF Catches(e) THEN OnException(jobs, i) ELSE returned
    /\ out' = Printed(e)
    /\ UNCHANGED <<app_vars, db, client, limit, jobs, i, items, field_name, level1_doc,
                   l1_items, calls, writes, rows, csv_file, json_file>>

\* ---------------------------------------------------- get_flattened_job_data

\* jobs = list(db.Job.aggregate(pipeline)) (line 44)
Start ==
    /\ pc = "start"
    /\ \E lim \in 1..MaxJobs :
        /\ limit' = lim
        /\ \/ /\ jobs' = Aggregate(lim)
              /\ pc' = "job"
              /\ UNCHANGED <<returned, err, out>>
           \/ /\ err' = "aggregate"
              /\ pc' = IF Catches("aggregate") THEN "done" ELSE "raised"
              /\ returned' = IF Catches("aggregate")
                           THEN OnException(jobs, i) ELSE returned
              /\ out' = Printed("aggregate")
              /\ UNCHANGED jobs
    /\ UNCHANGED <<app_vars, db, client, i, items, field_name, level1_doc, l1_items, calls,
                   writes, rows, csv_file, json_file>>

\* for job in jobs (line 47), and return jobs (line 120)
ForJob ==
    /\ pc = "job"
    /\ \/ /\ i < Len(jobs)
          /\ i' = i + 1
          /\ items' = jobs[i + 1]
          /\ pc' = "l1"
          /\ UNCHANGED returned
       \/ /\ i >= Len(jobs)
          /\ returned' = jobs
          /\ pc' = "done"
          /\ UNCHANGED <<i, items>>
    /\ UNCHANGED <<app_vars, db, client, limit, jobs, field_name, level1_doc, l1_items, calls,
                   writes, err, rows,
                   csv_file, json_file, out>>

\* continue (lines 52, 67, 72, 78) and the end of an iteration of line 49
Continue1 ==
    /\ items' = Tail(items)
    /\ UNCHANGED <<app_vars, db, client, limit, pc, jobs, i, field_name, level1_doc, l1_items,
                   calls, writes, returned, err, rows,
                   csv_file, json_file, out>>

\* Documents as the elements of a list value.
Dicts(docs) == [n \in DOMAIN docs |-> Dict(docs[n])]

\* The record of a lookup.
Call(op, level, key, collection_name, arg, ret) ==
    [op |-> op, level |-> level, job |-> i, key |-> key,
     collection |-> collection_name, arg |-> arg, ret |-> ret]

\* The record of an attached field.
Write(level, key, field, value) ==
    [level |-> level, job |-> i, key |-> key, field |-> field, value |-> value]

\* AttachLevel1Docs fetching the documents one by one: a point lookup for each
\* identifier of the sequence.
AttachLevel1DocsOneByOne(key, collection_name, field, value, level1_docs) ==
    /\ jobs' = [jobs EXCEPT ![i] = SetItem(@, field, ListOf(Dicts(level1_docs)))]
    /\ calls' = calls \o [n \in DOMAIN value.list |->
                            Call("find_one", 1, key, collection_name,
                                 value.list[n],
                                 FindOne(collection_name, value.list[n]))]
    /\ writes' = Append(writes, Write(1, key, field, ListOf(Dicts(level1_docs))))
    /\ items' = Tail(items)
    /\ UNCHANGED <<app_vars, db, client, limit, pc, i, field_name, level1_doc, l1_items, returned,
                   err, rows,
                   csv_file, json_file, out>>

\* job[field_name] = level1_docs (lines 73-75)
AttachLevel1Docs(key, collection_name, field, value, level1_docs) ==
    /\ jobs' = [jobs EXCEPT ![i] = SetItem(@, field, ListOf(Dicts(level1_docs)))]
    /\ calls' = Append(calls, Call("find", 1, key, collection_name, value,
                                   level1_docs))
    /\ writes' = Append(writes, Write(1, key, field, ListOf(Dicts(level1_docs))))
    /\ items' = Tail(items)
    /\ UNCHANGED <<app_vars, db, client, limit, pc, i, field_name, level1_doc, l1_items, returned,
                   err, rows,
                   csv_file, json_file, out>>

\* find_one returned None (lines 79-80)
NoLevel1Doc(key, collection_name, value) ==
    /\ calls' = Append(calls, Call("find_one", 1, key, collection_name, value,
                                   <<>>))
    /\ items' = Tail(items)
    /\ UNCHANGED <<app_vars, db, client, limit, pc, jobs, i, field_name, level1_doc, l1_items,
                   writes, returned, err, rows,
                   csv_file, json_file, out>>

\* AttachLevel1Doc without the loop of line 85: the document is attached as
\* fetched.
AttachLevel1DocAsFetched(key, collection_name, field, value, doc) ==
    /\ jobs' = [jobs EXCEPT ![i] = SetItem(@, field, Dict(doc))]
    /\ calls' = Append(calls, Call("find_one", 1, key, collection_name, value,
                                   <<doc>>))
    /\ writes' = Append(writes, Write(1, key, field, Dict(doc)))
    /\ items' = Tail(items)
    /\ UNCHANGED <<app_vars, db, client, limit, pc, i, field_name, level1_doc, l1_items, returned,
                   err, rows, csv_file, json_file, out>>

\* job[field_name] = level1_doc, and the start of the loop of line 85
AttachLevel1Doc(key, collection_name, field, value, doc) ==
    /\ jobs' = [jobs EXCEPT ![i] = SetItem(@, field, Dict(doc))]
    /\ calls' = Append(calls, Call("find_one", 1, key, collection_name, value,
                                   <<doc>>))
    /\ writes' = Append(writes, Write(1, key, field, Dict(doc)))
    /\ field_name' = field
    /\ level1_doc' = doc
    /\ l1_items' = doc
    /\ pc' = "l2"
    /\ items' = Tail(items)
    /\ UNCHANGED <<app_vars, db, client, limit, i, returned, err, rows,
                   csv_file, json_file, out>>

\* One iteration of the loop of line 49 (lines 49-82).
Level1Field ==
    /\ pc = "l1"
    /\ items # <<>>
    /\ LET key == Head(items)[1]
           value == Head(items)[2]
           is_array == IsArrayKey(key)
           base_name == BaseName(key)
           collection_name == CollectionName(base_name)
           field == FieldName(base_name, is_array)
       IN  \/ /\ ~IsRefKey(key)
              /\ Continue1
           \/ /\ IsRefKey(key)
              /\ base_name = <<>>
              /\ Raise("IndexError")
           \/ /\ IsRefKey(key)
              /\ base_name # <<>>
              /\ \/ Raise("list_collection_names")
                 \/ /\ ~CollectionExists(collection_name)
                    /\ Continue1
                 \/ /\ CollectionExists(collection_name)
                    /\ is_array
                    /\ \/ /\ ~IsList(value)
                          /\ Continue1
                       \/ /\ IsList(value)
                          /\ \/ Raise("find")
                             \/ \E level1_docs \in Find(collection_name, value.list) :
                                  AttachLevel1Docs(key, collection_name, field,
                                                   value, level1_docs)
                 \/ /\ CollectionExists(collection_name)
                    /\ ~is_array
                    /\ \/ /\ ~IsObjectId(value)
                          /\ Continue1
                       \/ /\ IsObjectId(value)
                          /\ \/ Raise("find_one")
                             \/ /\ FindOne(collection_name, value) = <<>>
                                /\ NoLevel1Doc(key, collection_name, value)
                             \/ /\ FindOne(collection_name, value) # <<>>
                                /\ AttachLevel1Doc(key, collection_name, field, value,
                                       FindOne(collection_name, value)[1])

\* The loop of line 49 is over: the next job.
EndLevel1 ==
    /\ pc = "l1"
    /\ items = <<>>
    /\ pc' = "job"
    /\ UNCHANGED <<app_vars, db, client, limit, jobs, i, items, field_name, level1_doc, l1_items,
                   calls, writes, returned, err, rows,
                   csv_file, json_file, out>>

\* continue (lines 88, 103, 108, 114) and the end of an iteration of line 85
Continue2 ==
    /\ l1_items' = Tail(l1_items)
    /\ UNCHANGED <<app_vars, db, client, limit, pc, jobs, i, items, field_name, level1_doc,
                   calls, writes, returned, err, rows,
                   csv_file, json_file, out>>

\* level1_doc[l2_field_name] = value; job[field_name] is the same dict
SetLevel1Field(l2_field_name, value) ==
    /\ level1_doc' = SetItem(level1_doc, l2_field_name, value)
    /\ jobs' = [jobs EXCEPT ![i] = SetItem(@, field_name, Dict(level1_doc'))]

\* level1_doc[l2_field_name] = level2_docs (lines 109-111)
AttachLevel2Docs(l1_key, l2_collection_name, l2_field_name, l1_value, level2_docs) ==
    /\ SetLevel1Field(l2_field_name, ListOf(Dicts(level2_docs)))
    /\ calls' = Append(calls, Call("find", 2, l1_key, l2_collection_name,
                                   l1_value, level2_docs))
    /\ writes' = Append(writes, Write(2, l1_key, l2_field_name,
                                      ListOf(Dicts(level2_docs))))
    /\ l1_items' = Tail(l1_items)
    /\ UNCHANGED <<app_vars, db, client, limit, pc, i, items, field_name, returned, err, rows,
                   csv_file, json_file, out>>

\* find_one returned None (lines 115-116)
NoLevel2Doc(l1_key, l2_collection_name, l1_value) ==
    /\ calls' = Append(calls, Call("find_one", 2, l1_key, l2_collection_name,
                                   l1_value, <<>>))
    /\ l1_items' = Tail(l1_items)
    /\ UNCHANGED <<app_vars, db, client, limit, pc, jobs, i, items, field_name, level1_doc,
                   writes, returned, err, rows,
                   csv_file, json_file, out>>

\* As AttachLevel2Doc, but the first single reference of level2_doc that can be
\* resolved is resolved too.
AttachLevel2DocDeeper(l1_key, l2_collection_name, l2_field_name, l1_value, level2_doc) ==
    LET refs == {n \in DOMAIN level2_doc :
                   /\ IsRefKey(level2_doc[n][1])
                   /\ ~IsArrayKey(level2_doc[n][1])
                   /\ BaseName(level2_doc[n][1]) # <<>>
                   /\ CollectionExists(CollectionName(BaseName(level2_doc[n][1])))
                   /\ IsObjectId(level2_doc[n][2])
                   /\ FindOne(CollectionName(BaseName(level2_doc[n][1])),
                              level2_doc[n][2]) # <<>>}
        n == CHOOSE m \in refs : TRUE
        deeper == IF refs = {}
                  THEN level2_doc
                  ELSE SetItem(level2_doc,
                               FieldName(BaseName(level2_doc[n][1]), FALSE),
                               Dict(FindOne(CollectionName(BaseName(level2_doc[n][1])),
                                            level2_doc[n][2])[1]))
    IN  /\ SetLevel1Field(l2_field_name, Dict(deeper))
        /\ calls' = Append(calls, Call("find_one", 2, l1_key, l2_collection_name,
                                       l1_value, <<level2_doc>>))
        /\ writes' = Append(writes, Write(2, l1_key, l2_field_name,
                                          Dict(deeper)))
        /\ l1_items' = Tail(l1_items)
        /\ UNCHANGED <<app_vars, db, client, limit, pc, i, items, field_name, returned, err, rows,
                       csv_file, json_file, out>>

\* level1_doc[l2_field_name] = level2_doc (lines 115-118)
AttachLevel2Doc(l1_key, l2_collection_name, l2_field_name, l1_value, level2_doc) ==
    /\ SetLevel1Field(l2_field_name, Dict(level2_doc))
    /\ calls' = Append(calls, Call("find_one", 2, l1_key, l2_collection_name,
                                   l1_value, <<level2_doc>>))
    /\ writes' = Append(writes, Write(2, l1_key, l2_field_name,
                                      Dict(level2_doc)))
    /\ l1_items' = Tail(l1_items)
    /\ UNCHANGED <<app_vars, db, client, limit, pc, i, items, field_name, returned, err, rows,
                   csv_file, json_file, out>>

\* One iteration of the loop of line 85 (lines 85-118).
Level2Field ==
    /\ pc = "l2"
    /\ l1_items # <<>>
    /\ LET l1_key == Head(l1_items)[1]
           l1_value == Head(l1_items)[2]
           l2_is_array == IsArrayKey(l1_key)
           l2_base_name == BaseName(l1_key)
           l2_collection_name == CollectionName(l2_base_name)
           l2_field_name == FieldName(l2_base_name, l2_is_array)
       IN  \/ /\ ~IsRefKey(l1_key)
              /\ Continue2
           \/ /\ IsRefKey(l1_key)
              /\ l2_base_name = <<>>
              /\ Raise("IndexError")
           \/ /\ IsRefKey(l1_key)
              /\ l2_base_name # <<>>
              /\ \/ Raise("list_collection_names")
                 \/ /\ ~CollectionExists(l2_collection_name)
                    /\ Continue2
                 \/ /\ CollectionExists(l2_collection_name)
                    /\ l2_is_array
                    /\ \/ /\ ~IsList(l1_value)
                          /\ Continue2
                       \/ /\ IsList(l1_value)
                          /\ \/ Raise("find")
                             \/ \E level2_docs \in
                                    Find(l2_collection_name, l1_value.list) :
                                  AttachLevel2Docs(l1_key, l2_collection_name,
                                      l2_field_name, l1_value, level2_docs)
                 \/ /\ CollectionExists(l2_collection_name)
                    /\ ~l2_is_array
                    /\ \/ /\ ~IsObjectId(l1_value)
                          /\ Continue2
                       \/ /\ IsObjectId(l1_value)
                          /\ \/ Raise("find_one")
                             \/ /\ FindOne(l2_collection_name, l1_value) = <<>>
                                /\ NoLevel2Doc(l1_key, l2_collection_name, l1_value)
                             \/ /\ FindOne(l2_collection_name, l1_value) # <<>>
                                /\ AttachLevel2Doc(l1_key, l2_collection_name,
                                       l2_field_name, l1_value,
                                       FindOne(l2_collection_name, l1_value)[1])

\* The loop of line 85 is over: the next field of job.
EndLevel2 ==
    /\ pc = "l2"
    /\ l1_items = <<>>
    /\ pc' = "l1"
    /\ UNCHANGED <<app_vars, db, client, limit, jobs, i, items, field_name, level1_doc, l1_items,
                   calls, writes, returned, err, rows,
                   csv_file, json_file, out>>

\* ----------------------------------------------------- flatten_nested_document

\* value[:3] (line 165)
FlattenLimit == 3

\* str(i) for the indices enumerate(value[:3]) yields
IndexString(index) == <<(<<"0", "1", "2", "3", "4", "5", "6", "7", "8", "9">>)[index + 1]>>

RECURSIVE flatten_nested_document(_, _, _)
RECURSIVE FlattenItems(_, _, _)
RECURSIVE FlattenList(_, _, _, _)

\* for i, item in enumerate(value[:3]) (lines 165-166)
FlattenList(list_items, index, new_key, result) ==
    IF list_items = <<>>
    THEN result
    ELSE FlattenList(Tail(list_items), index + 1, new_key,
             flatten_nested_document(Head(list_items),
                 new_key \o <<"_">> \o IndexString(index), result))

\* FirstItems without the slice: every item of the list.
AllItems(value) == value.list

\* value[:3] (line 165)
FirstItems(value) == Take(value.list, FlattenLimit)

\* for key, value in doc.items() (lines 152-169)
FlattenItems(doc_items, prefix, result) ==
    IF doc_items = <<>>
    THEN result
    ELSE LET key == Head(doc_items)[1]
             value == Head(doc_items)[2]
             new_key == IF prefix # <<>> THEN prefix \o <<"_">> \o key ELSE key
             counted == SetItem(result, new_key \o <<"_","c","o","u","n","t">>,
                                Number(Len(value.list)))
         IN  FlattenItems(Tail(doc_items), prefix,
                 IF IsDict(value)
                 THEN flatten_nested_document(value, new_key, result)
                 ELSE IF IsList(value)
                 THEN IF value.list # <<>> /\ IsDict(value.list[1])
                      THEN FlattenList(FirstItems(value), 0, new_key, counted)
                      ELSE counted
                 ELSE SetItem(result, new_key, value))

\* flatten_nested_document(doc, prefix, result) (lines 133-171)
flatten_nested_document(doc, prefix, result) ==
    IF ~IsDict(doc) THEN result ELSE FlattenItems(doc.doc, prefix, result)

\* flattened_data = [flatten_nested_document(job) for job in flattened_jobs]
\* (main, line 271)
FlattenJobs ==
    /\ pc = "done"
    /\ rows' = [n \in DOMAIN returned |->
                  flatten_nested_document(Dict(returned[n]), <<>>, <<>>)]
    /\ pc' = "flat"
    /\ UNCHANGED <<app_vars, db, client, limit, jobs, i, items, field_name, level1_doc, l1_items,
                   calls, writes, returned, err,
                   csv_file, json_file, out>>

\* ------------------------------------------------------------------ exports

RECURSIVE Columns(_)
RECURSIVE Encode(_)

\* The keys of a row, in order.
KeyList(row) == [n \in DOMAIN row |-> row[n][1]]

\* df.columns of pd.DataFrame(flattened_data) (line 273): the keys of the rows,
\* each where it is first met.
Columns(data) ==
    IF data = <<>>
    THEN <<>>
    ELSE LET before == Columns(SubSeq(data, 1, Len(data) - 1))
         IN  before \o SelectSeq(KeyList(data[Len(data)]),
                                 LAMBDA key : \A n \in DOMAIN before :
                                                 before[n] # key)

\* The cell of a row a key of which is missing.
NaN == [nan |-> TRUE]

\* pd.DataFrame(flattened_data) (line 273): one record for each row, with a
\* cell for each column.
DataFrame(data) ==
    [columns |-> Columns(data),
     records |-> [n \in DOMAIN data |->
                    [c \in DOMAIN Columns(data) |->
                       IF Has(data[n], Columns(data)[c])
                       THEN Get(data[n], Columns(data)[c])
                       ELSE NaN]]]

\* json.dump(..., cls=MongoJSONEncoder) (lines 8-14 and 282): an ObjectId is
\* written as its string.
Encode(value) ==
    IF IsObjectId(value) THEN Text(value.oid)
    ELSE IF IsDict(value)
    THEN Dict([n \in DOMAIN value.doc |->
                 <<value.doc[n][1], Encode(value.doc[n][2])>>])
    ELSE IF IsList(value)
    THEN ListOf([n \in DOMAIN value.list |-> Encode(value.list[n])])
    ELSE value

\* An exception leaves the try block of main (lines 292-293).
MainRaise(e) ==
    /\ pc' = "failed"
    /\ out' = Append(out, Line("Error", e))
    /\ UNCHANGED <<app_vars, db, client, limit, jobs, i, items, field_name, level1_doc, l1_items,
                   calls, writes, returned, err, rows, csv_file, json_file>>

\* df = pd.DataFrame(flattened_data); df.to_csv(csv_filename, index=False)
\* (lines 273-277)
ExportCsv ==
    /\ pc = "flat"
    /\ \/ /\ csv_file' = <<DataFrame(rows)>>
          /\ out' = Append(out, Line("Exported", "flattened_jobs.csv"))
          /\ pc' = "csv"
          /\ UNCHANGED <<app_vars, db, client, limit, jobs, i, items, field_name, level1_doc,
                         l1_items, calls, writes, returned, err, rows,
                         json_file>>
       \/ MainRaise("to_csv")

\* with open(json_filename, "w") as f: json.dump(flattened_jobs, f, ...)
\* (lines 280-283)
ExportJson ==
    /\ pc = "csv"
    /\ \/ /\ json_file' = <<Encode(ListOf(Dicts(returned))).list>>
          /\ out' = Append(out, Line("Exported", "jobs_with_relationships.json"))
          /\ pc' = "json"
          /\ UNCHANGED <<app_vars, db, client, limit, jobs, i, items, field_name, level1_doc,
                         l1_items, calls, writes, returned, err, rows,
                         csv_file>>
       \/ MainRaise("open")

\* ----------------------------------------------------------- specification

Next ==
    \/ Start
    \/ ForJob
    \/ Level1Field
    \/ EndLevel1
    \/ Level2Field
    \/ EndLevel2
    \/ FlattenJobs
    \/ ExportCsv
    \/ ExportJson

Spec == Init /\ [][Next]_vars

\* ------------------------------------------------------------------- main

\* The database without a Job collection.
DatabaseWithoutJob ==
    [name \in DOMAIN Database(<<>>) \ {<<"J","o","b">>} |-> Database(<<>>)[name]]

\* db.Job.find_one() (line 209): <<>> for None, else <<document>>
FindOneSample == Take(Collection(<<"J","o","b">>), 1)

\* db, client = connect_to_mongodb(connection_string, db_name) (lines 17-23
\* and 199-200)
Connect ==
    /\ pc = "main"
    /\ \/ /\ client' = "open"
          /\ pc' = "connected"
          /\ out' = Append(out, Line("Successfully connected to MongoDB", ""))
          /\ UNCHANGED <<app_vars, db, limit, jobs, i, items, field_name, level1_doc,
                         l1_items, calls, writes, returned, err, rows,
                         csv_file, json_file>>
       \/ MainRaise("MongoClient")

\* collections = db.list_collection_names(); if "Job" in collections: ...
\* else: print("Job collection not found in the database")
\* (lines 203-207 and 285-286)
ListCollections ==
    /\ pc = "connected"
    /\ \/ /\ pc' = IF <<"J","o","b">> \in list_collection_names
                   THEN "listed" ELSE "absent"
          /\ out' = IF <<"J","o","b">> \in list_collection_names
                    THEN Append(out, Line("Available collections", ""))
                    ELSE Append(out, Line("Available collections", ""))
                         \o <<Line("Job collection not found in the database",
                                   "")>>
          /\ UNCHANGED <<app_vars, db, client, limit, jobs, i, items, field_name,
                         level1_doc, l1_items, calls, writes, returned, err,
                         rows, csv_file, json_file>>
       \/ MainRaise("list_collection_names")

\* sample_doc = db.Job.find_one(); for key in sample_doc.keys(): ...
\* (lines 209-215): sample_doc.keys() raises AttributeError when find_one
\* has returned None
SampleJob ==
    /\ pc = "listed"
    /\ \/ /\ FindOneSample # <<>>
          /\ pc' = "start"
          /\ out' = Append(out, Line("Sample Job document fields", ""))
          /\ UNCHANGED <<app_vars, db, client, limit, jobs, i, items, field_name,
                         level1_doc, l1_items, calls, writes, returned, err,
                         rows, csv_file, json_file>>
       \/ /\ FindOneSample = <<>>
          /\ MainRaise("AttributeError")
       \/ MainRaise("find_one")

\* client.close(); print("Connection closed") (lines 288-290), reached from
\* the end of either branch of `if "Job" in collections`
Close ==
    /\ pc \in {"json", "absent"}
    /\ client' = "closed"
    /\ pc' = "exit"
    /\ out' = Append(out, Line("Connection closed", ""))
    /\ UNCHANGED <<app_vars, db, limit, jobs, i, items, field_name, level1_doc,
                   l1_items, calls, writes, returned, err, rows, csv_file,
                   json_file>>

\* main is entered before anything is connected.
MainInit ==
    /\ db \in {Database(docs) : docs \in JobCollections} \cup {DatabaseWithoutJob}
    /\ client = "none"
    /\ limit = 0
    /\ pc = "main"
    /\ jobs = <<>>
    /\ i = 0
    /\ items = <<>>
    /\ field_name = <<>>
    /\ level1_doc = <<>>
    /\ l1_items = <<>>
    /\ calls = <<>>
    /\ writes = <<>>
    /\ returned = <<>>
    /\ err = ""
    /\ rows = <<>>
    /\ csv_file = <<>>
    /\ json_file = <<>>
    /\ out = <<>>
    /\ AppAbsent

\* The steps of main: its own, and those of the call at line 216 and of the
\* exports.
MainNext ==
    \/ Connect
    \/ ListCollections
    \/ SampleJob
    \/ Next
    \/ Close

\* main from its first line to its return.
MainSpec == MainInit /\ [][MainNext]_vars

\* --------------------------------------- flatten_nested_document on its own

\* Largest number of items of a list handed to flatten_nested_document.
MaxItems == 5

\* The items a list may hold: scalars, documents (empty, flat, holding a list)
\* and lists.
ListItems ==
    { Number(1),
      Dict(<<>>),
      Dict(<< <<<<"x">>, Number(2)>> >>),
      Dict(<< <<<<"x">>, Text("b")>>, <<<<"y">>, ListOf(<<Number(1)>>)>> >>),
      ListOf(<< Dict(<< <<<<"x">>, Number(3)>> >>) >>) }

\* The lists of len items.
Lists(len) == [1..len -> ListItems]

\* The documents with a field k holding the list `list_items`: k at the top
\* level, k inside a nested document, and k beside fields named as a
\* flattened key of k is.
DocumentsWith(list_items) ==
    { << <<<<"k">>, ListOf(list_items)>> >>,
      << <<<<"a">>, Dict(<< <<<<"k">>, ListOf(list_items)>>, <<<<"n">>, Number(7)>> >>)>>,
         <<<<"b">>, Text("t")>> >>,
      << <<<<"k">>, ListOf(list_items)>>,
         <<<<"k","_","c","o","u","n","t">>, Text("z")>>,
         <<<<"k","_","0","_","x">>, Text("w")>> >>,
      << <<<<"a","_","k","_","c","o","u","n","t">>, Number(0)>>,
         <<<<"a">>, Dict(<< <<<<"k">>, ListOf(list_items)>> >>)>> >> }

\* The documents without a list: empty, with a nested document beside a field
\* named as a flattened key of it is, with an empty nested document.
DocumentsWithout ==
    { <<>>,
      << <<<<"a">>, Dict(<< <<<<"b">>, Number(1)>> >>)>>, <<<<"a","_","b">>, Number(2)>> >>,
      << <<<<"a">>, Dict(<<>>)>>, <<<<"b">>, ObjectId("c1")>> >> }

\* flatten_nested_document is applied to one document, whatever it holds.
FlattenInit ==
    /\ db = Database(<<>>)
    /\ client = "none"
    /\ limit = 0
    /\ pc = "done"
    /\ jobs = <<>>
    /\ i = 0
    /\ items = <<>>
    /\ field_name = <<>>
    /\ level1_doc = <<>>
    /\ l1_items = <<>>
    /\ calls = <<>>
    /\ writes = <<>>
    /\ \E len \in 0..MaxItems : \E list_items \in Lists(len) :
         \E doc \in DocumentsWith(list_items) \cup DocumentsWithout :
            returned = <<doc>>
    /\ err = ""
    /\ rows = <<>>
    /\ csv_file = <<>>
    /\ json_file = <<>>
    /\ out = <<>>
    /\ AppAbsent

\* The one step: the document is flattened.
FlattenNext == FlattenJobs

\* flatten_nested_document as a function of its input alone.
FlattenSpec == FlattenInit /\ [][FlattenNext]_vars

\* ------------------------------------------------- app.py: the date range

\* datetime.date
Date(year, month, day) == [year |-> year, month |-> month, day |-> day]

\* A year of the Gregorian calendar with a 29 February.
IsLeap(year) == (year % 4 = 0 /\ year % 100 # 0) \/ year % 400 = 0

\* The number of days of a month.
DaysInMonth(year, month) ==
    IF month = 2 THEN (IF IsLeap(year) THEN 29 ELSE 28)
    ELSE IF month \in {4, 6, 9, 11} THEN 30 ELSE 31

\* The number of days before 1 January of a year, counted from 1 January of
\* year 1.
DaysBeforeYear(year) ==
    (year - 1) * 365 + (year - 1) \div 4 - (year - 1) \div 100
    + (year - 1) \div 400

RECURSIVE DaysBeforeMonth(_, _)

\* The number of days of a year before the first day of a month.
DaysBeforeMonth(year, month) ==
    IF month = 1 THEN 0
    ELSE DaysBeforeMonth(year, month - 1) + DaysInMonth(year, month - 1)

\* date.toordinal()
Ordinal(date) ==
    DaysBeforeYear(date.year) + DaysBeforeMonth(date.year, date.month)
    + date.day

\* date.fromordinal(n)
FromOrdinal(n) ==
    LET year  == CHOOSE y \in ((n - 1) \div 366 + 1)..((n - 1) \div 365 + 1) :
                     DaysBeforeYear(y) < n /\ n <= DaysBeforeYear(y + 1)
        rest  == n - DaysBeforeYear(year)
        month == CHOOSE m \in 1..12 :
                     /\ DaysBeforeMonth(year, m) < rest
                     /\ rest <= DaysBeforeMonth(year, m) + DaysInMonth(year, m)
    IN  Date(year, month, rest - DaysBeforeMonth(year, month))

\* date - timedelta(days=days)
MinusDays(date, days) == FromOrdinal(Ordinal(date) - days)

\* date.replace(day=day)
ReplaceDay(date, day) == Date(date.year, date.month, day)

\* date1 > date2
Later(date1, date2) == Ordinal(date1) > Ordinal(date2)

\* The %b of strftime.
MonthAbbr ==
    <<"Jan", "Feb", "Mar", "Apr", "May", "Jun",
      "Jul", "Aug", "Sep", "Oct", "Nov", "Dec">>

\* date.strftime('%d %b, %Y') (line 342): the day in two digits, the
\* abbreviated month, the year.
Strftime(date) ==
    [d |-> <<date.day \div 10, date.day % 10>>,
     b |-> MonthAbbr[date.month],
     Y |-> date.year]

\* default_start_date = today - timedelta(days=30) (line 305)
default_start_date == MinusDays(today, 30)

\* The labels of the Quick Select buttons, in the order of the script.
Buttons == <<"Last 7 Days", "Last 30 Days", "This Month", "Last Month">>

\* last_month = today.replace(day=1) - timedelta(days=1) (line 337)
last_month == MinusDays(ReplaceDay(today, 1), 1)

\* The start_date and end_date the branch of a button assigns
\* (lines 320-339).
QuickSelect(button) ==
    IF button = "Last 7 Days" THEN <<MinusDays(today, 7), today>>
    ELSE IF button = "Last 30 Days" THEN <<MinusDays(today, 30), today>>
    ELSE IF button = "This Month" THEN <<ReplaceDay(today, 1), today>>
    ELSE <<ReplaceDay(last_month, 1), last_month>>

\* ------------------------------------------------ app.py: the script runs

\* The days the session may be opened on: in a month that follows a month of
\* 31 days, of 28 days, of 29 days, and in January.
Todays ==
    { Date(2025, 1, 15), Date(2025, 3, 1), Date(2024, 3, 30),
      Date(2025, 5, 31) }

\* The dates the user may pick in a date input.
DateChoices ==
    { MinusDays(today, 0), MinusDays(today, 7), MinusDays(today, 30),
      MinusDays(today, 45) }

\* One run of the script from line 304 to line 347, caused by `cause`, with
\* the Quick Select button `button` clicked ("" when none is) and the date
\* inputs holding start_input and end_input.
\*   - start_date > end_date: st.error, st.stop() (lines 313-315);
\*   - a clicked button: its branch assigns start_date and end_date and
\*     st.experimental_rerun() ends the run there (lines 320-340);
\*   - otherwise the Selected Period is written (line 342) and the job and
\*     review data are loaded (lines 346-347).
ScriptRun(cause, button, start_input, end_input) ==
    /\ run' = cause
    /\ IF Later(start_input, end_input)
       THEN /\ start_date' = start_input
            /\ end_date' = end_input
            /\ rerun' = FALSE
            /\ selected_period' = <<>>
            /\ loaded' = <<>>
       ELSE IF button # ""
       THEN /\ start_date' = QuickSelect(button)[1]
            /\ end_date' = QuickSelect(button)[2]
            /\ rerun' = TRUE
            /\ selected_period' = <<>>
            /\ loaded' = <<>>
       ELSE /\ start_date' = start_input
            /\ end_date' = end_input
            /\ rerun' = FALSE
            /\ selected_period' = <<Strftime(start_input), Strftime(end_input)>>
            /\ loaded' = << <<start_input, end_input>>,
                            <<start_input, end_input>> >>

\* The page is opened: the first run of the script.
Open ==
    /\ run = ""
    /\ ScriptRun("open", "", start_date_input, end_date_input)
    /\ UNCHANGED <<getdata_vars, today, start_date_input, end_date_input,
                   clicked>>

\* The user picks another date in the Start Date input (line 309).
ChangeStartDate ==
    /\ run # ""
    /\ ~rerun
    /\ \E date \in DateChoices \ {start_date_input} :
        /\ start_date_input' = date
        /\ ScriptRun("input", "", date, end_date_input)
    /\ UNCHANGED <<getdata_vars, today, end_date_input, clicked>>

\* The user picks another date in the End Date input (line 311).
ChangeEndDate ==
    /\ run # ""
    /\ ~rerun
    /\ \E date \in DateChoices \ {end_date_input} :
        /\ end_date_input' = date
        /\ ScriptRun("input", "", start_date_input, date)
    /\ UNCHANGED <<getdata_vars, today, start_date_input, clicked>>

\* The user clicks a Quick Select button (lines 317-340); the buttons are on
\* the page when the latest run has passed line 315.
ClickButton ==
    /\ run # ""
    /\ ~rerun
    /\ ~Later(start_date_input, end_date_input)
    /\ \E n \in DOMAIN Buttons :
        /\ clicked' = Buttons[n]
        /\ ScriptRun("click", Buttons[n], start_date_input, end_date_input)
    /\ UNCHANGED <<getdata_vars, today, start_date_input, end_date_input>>

\* The run st.experimental_rerun() has asked for: the script from its first
\* line, no button clicked, the inputs holding what they held.
Rerun ==
    /\ rerun
    /\ ScriptRun("rerun", "", start_date_input, end_date_input)
    /\ UNCHANGED <<getdata_vars, today, start_date_input, end_date_input,
                   clicked>>

\* st_autorefresh(interval=600 * 1000, ...) (line 47) runs the script again.
AutoRefresh ==
    /\ run # ""
    /\ ~rerun
    /\ ScriptRun("refresh", "", start_date_input, end_date_input)
    /\ UNCHANGED <<getdata_vars, today, start_date_input, end_date_input,
                   clicked>>

\* A session before the first run: the date inputs hold their defaults
\* (lines 304-311).
AppInit ==
    /\ db = Database(<<>>)
    /\ client = "open"
    /\ limit = 0
    /\ pc = "app"
    /\ jobs = <<>>
    /\ i = 0
    /\ items = <<>>
    /\ field_name = <<>>
    /\ level1_doc = <<>>
    /\ l1_items = <<>>
    /\ calls = <<>>
    /\ writes = <<>>
    /\ returned = <<>>
    /\ err = ""
    /\ rows = <<>>
    /\ csv_file = <<>>
    /\ json_file = <<>>
    /\ out = <<>>
    /\ today \in Todays
    /\ start_date_input = default_start_date
    /\ end_date_input = today
    /\ run = ""
    /\ clicked = ""
    /\ rerun = FALSE
    /\ start_date = default_start_date
    /\ end_date = today
    /\ selected_period = <<>>
    /\ loaded = <<>>

AppNext ==
    \/ Open
    \/ ChangeStartDate
    \/ ChangeEndDate
    \/ ClickButton
    \/ Rerun
    \/ AutoRefresh

\* The dashboard script, run after run.
AppSpec == AppInit /\ [][AppNext]_vars

\* ------------------------------------------------------------------ claims

\* get_flattened_job_data has returned.
Returned == pc \in {"done", "flat", "csv", "json", "failed"}

\* The root documents as the aggregation returned them.
Fetched == IF err = "aggregate" THEN <<>> ELSE Take(db[<<"J","o","b">>], limit)

\* A field name that follows the reference convention.
RefNamed(key) == EndsWith(key, <<"I","D">>) \/ EndsWith(key, <<"I","D","s">>)

\* Base of a reference field name.
BaseOf(key) ==
    IF EndsWith(key, <<"I","D","s">>) THEN SubSeq(key, 1, Len(key) - 3)
    ELSE SubSeq(key, 1, Len(key) - 2)

\* The target collection of a reference field: Base, first character
\* upper-cased.
TargetOf(key) == <<UpperChar(BaseOf(key)[1])>> \o Tail(BaseOf(key))

\* The documents of collection `name` whose _id is among the values ids.
Targets(name, ids) ==
    {d \in {db[name][n] : n \in DOMAIN db[name]} :
        \E n \in DOMAIN ids : ids[n] = d[1][2]}

\* The elements of a sequence.
Range(s) == {s[n] : n \in DOMAIN s}

\* The one-job scenario of the specification's end-to-end example.
DepthTwoExample ==
    /\ pc = "flat"
    /\ err = ""
    /\ db[<<"J","o","b">>] = << << <<<<"_","i","d">>, ObjectId("j1")>>,
                          <<<<"j","o","b","L","o","c","a","t","i","o","n","I","D">>, ObjectId("loc1")>> >> >>
    /\ JobLocation_loc1 \in Range(db[<<"J","o","b","L","o","c","a","t","i","o","n">>])
    /\ Customer_c1 \in Range(db[<<"C","u","s","t","o","m","e","r">>])

\* C1: in the end-to-end example ({_id: j1, jobLocationID: loc1}, JobLocation
\* holding {_id: loc1, customerID: c1, name: "Site A"}, Customer holding
\* {_id: c1, name: "Acme"}) the returned root has a field jobLocation holding
\* the JobLocation document, which has a field customer holding the Customer
\* document, and the flattened root has jobLocation_name = "Site A" and
\* jobLocation_customer_name = "Acme".
C1_DepthTwoExample ==
    DepthTwoExample =>
        /\ Has(returned[1], <<"j","o","b","L","o","c","a","t","i","o","n">>)
        /\ IsDict(Get(returned[1], <<"j","o","b","L","o","c","a","t","i","o","n">>))
        /\ LET jobLocation == Get(returned[1], <<"j","o","b","L","o","c","a","t","i","o","n">>).doc
           IN  /\ \A n \in DOMAIN JobLocation_loc1 :
                    /\ Has(jobLocation, JobLocation_loc1[n][1])
                    /\ Get(jobLocation, JobLocation_loc1[n][1]) = JobLocation_loc1[n][2]
               /\ Has(jobLocation, <<"c","u","s","t","o","m","e","r">>)
               /\ Get(jobLocation, <<"c","u","s","t","o","m","e","r">>) = Dict(Customer_c1)
        /\ Has(rows[1], <<"j","o","b","L","o","c","a","t","i","o","n","_","n","a","m","e">>)
        /\ Get(rows[1], <<"j","o","b","L","o","c","a","t","i","o","n","_","n","a","m","e">>) = Text("Site A")
        /\ Has(rows[1], <<"j","o","b","L","o","c","a","t","i","o","n","_","c","u","s","t","o","m","e","r","_","n","a","m","e">>)
        /\ Get(rows[1], <<"j","o","b","L","o","c","a","t","i","o","n","_","c","u","s","t","o","m","e","r","_","n","a","m","e">>) = Text("Acme")

\* What the code returns in the example: the same tree under all-lower-case
\* field names.
C1_DepthTwoExampleLowerCase ==
    DepthTwoExample =>
        /\ Has(returned[1], <<"j","o","b","l","o","c","a","t","i","o","n">>)
        /\ Has(Get(returned[1], <<"j","o","b","l","o","c","a","t","i","o","n">>).doc, <<"c","u","s","t","o","m","e","r">>)
        /\ Get(Get(returned[1], <<"j","o","b","l","o","c","a","t","i","o","n">>).doc, <<"c","u","s","t","o","m","e","r">>) = Dict(Customer_c1)
        /\ Get(rows[1], <<"j","o","b","l","o","c","a","t","i","o","n","_","n","a","m","e">>) = Text("Site A")
        /\ Get(rows[1], <<"j","o","b","l","o","c","a","t","i","o","n","_","c","u","s","t","o","m","e","r","_","n","a","m","e">>) = Text("Acme")

\* Base with only its first character lower-cased, plus "s" for an IDs field.
AttachNameOf(key) ==
    <<LowerChar(BaseOf(key)[1])>> \o Tail(BaseOf(key))
    \o (IF EndsWith(key, <<"I","D","s">>) THEN <<"s">> ELSE <<>>)

\* C2: every attached field is named Base with only its first character
\* lower-cased and the remaining characters unchanged, plus a trailing "s" for
\* an IDs field.
C2_AttachNameKeepsInnerCase ==
    \A n \in DOMAIN writes : writes[n].field = AttachNameOf(writes[n].key)

\* A step of the loop of the given level is about to look at a field.
AtField(level) ==
    IF level = 1 THEN pc = "l1" /\ items # <<>> ELSE pc = "l2" /\ l1_items # <<>>

\* The field that step looks at.
FieldAt(level) == IF level = 1 THEN Head(items) ELSE Head(l1_items)

\* The document that step resolves, as it stands in the tree of job i.
DocAt(level) == IF level = 1 THEN jobs[i] ELSE Get(jobs[i], field_name).doc

\* The same document after the step.
DocAfter(level) == IF level = 1 THEN jobs'[i] ELSE Get(jobs'[i], field_name).doc

\* after is before with the one field f written to value and nothing else
\* added, removed or changed.
WritesField(before, after, f, value) ==
    /\ Keys(after) = Keys(before) \cup {f}
    /\ Len(after) = Cardinality(Keys(after))
    /\ Get(after, f) = value
    /\ \A k \in Keys(before) \ {f} : Get(after, k) = Get(before, k)

\* The step resolves a single reference: an ID field with an existing target
\* collection and an identifier as value, and no accessor call raises.
SingleRefStep(level) ==
    /\ AtField(level)
    /\ EndsWith(FieldAt(level)[1], <<"I","D">>)
    /\ BaseOf(FieldAt(level)[1]) # <<>>
    /\ TargetOf(FieldAt(level)[1]) \in DOMAIN db
    /\ IsObjectId(FieldAt(level)[2])
    /\ err' = ""

MultiRefStep(level) ==
    /\ AtField(level)
    /\ EndsWith(FieldAt(level)[1], <<"I","D","s">>)
    /\ BaseOf(FieldAt(level)[1]) # <<>>
    /\ TargetOf(FieldAt(level)[1]) \in DOMAIN db
    /\ IsList(FieldAt(level)[2])
    /\ \A v \in Range(FieldAt(level)[2].list) : IsObjectId(v)
    /\ err' = ""

\* C4: resolving a multi-reference field whose target collection exists and
\* whose value is a sequence of N identifiers issues one batched lookup and
\* writes one field holding exactly the M <= N matching documents, in the
\* order the lookup returned them, also when M = 0.
C4_MultiReference ==
    [][\A level \in {1, 2} : MultiRefStep(level) =>
          LET matching == Targets(TargetOf(FieldAt(level)[1]), FieldAt(level)[2].list)
              got == calls'[Len(calls')].ret
          IN  /\ Len(calls') = Len(calls) + 1
              /\ Range(got) = matching
              /\ Len(got) = Cardinality(matching)
              /\ Len(got) <= Len(FieldAt(level)[2].list)
              /\ \E f \in Keys(DocAfter(level)) :
                   WritesField(DocAt(level), DocAfter(level), f,
                               ListOf([n \in DOMAIN got |-> Dict(got[n])]))]_vars

\* An empty sequence was attached at level 1 and a sequence of two documents,
\* matched by three identifiers, at level 2.
C4_Witness ==
    /\ \E n \in DOMAIN writes :
         writes[n].level = 1 /\ writes[n].value = ListOf(<<>>)
    /\ \E n \in DOMAIN writes :
         /\ writes[n].level = 2
         /\ IsList(writes[n].value)
         /\ Len(writes[n].value.list) = 2
    /\ err = ""

\* Every stored document; identifiers are unique across the collections.
Stored == UNION {Range(db[name]) : name \in DOMAIN db}

\* The stored document with the given _id.
StoredWithId(id) == CHOOSE d \in Stored : d[1][2] = id

\* Every reference-named field of original is in doc with its original value.
RefFieldsKept(original, doc) ==
    \A n \in DOMAIN original :
        RefNamed(original[n][1]) =>
            /\ Has(doc, original[n][1])
            /\ Get(doc, original[n][1]) = original[n][2]

\* The level-1 documents of a root document: the documents its fields hold,
\* alone or in a sequence.
Level1Docs(job) ==
    {v.doc : v \in {w \in {job[n][2] : n \in DOMAIN job} : IsDict(w)}}
    \cup UNION {{e.doc : e \in {x \in Range(v.list) : IsDict(x)}} :
                  v \in {w \in {job[n][2] : n \in DOMAIN job} : IsList(w)}}

\* C5: in what get_flattened_job_data returns, every root document and every
\* level-1 document still holds each of its original fields whose name ends in
\* ID or IDs, with the value it had when fetched.
C5_ReferenceFieldsKept ==
    Returned =>
        \A k \in DOMAIN returned :
            /\ RefFieldsKept(Fetched[k], returned[k])
            /\ \A d \in Level1Docs(returned[k]) :
                 RefFieldsKept(StoredWithId(d[1][2]), d)

\* A returned root has one of its reference fields resolved, and so has the
\* level-1 document attached to it.
C5_Witness ==
    /\ Returned
    /\ returned # <<>>
    /\ \E m, n \in DOMAIN writes :
         /\ writes[m].level = 1 /\ writes[m].job = 1
         /\ RefNamed(writes[m].key)
         /\ writes[n].level = 2 /\ writes[n].job = 1
         /\ RefNamed(writes[n].key)

\* The values of the fields of the level-1 documents of a root document.
Level2Values(job) ==
    UNION {{job[n][2].doc[m][2] : m \in DOMAIN job[n][2].doc} :
             n \in {m \in DOMAIN job : IsDict(job[m][2])}}

\* The documents at level 2 of a root document.
Level2Docs(job) ==
    {v.doc : v \in {w \in Level2Values(job) : IsDict(w)}}
    \cup UNION {{e.doc : e \in {x \in Range(v.list) : IsDict(x)}} :
                  v \in {w \in Level2Values(job) : IsList(w)}}

\* C6: resolution stops at depth 2: every document attached inside a level-1
\* document stays as it is stored, and every lookup is for a field of a root
\* document or of a document a level-1 point lookup fetched.
C6_DepthBoundedAtTwo ==
    /\ \A k \in DOMAIN jobs : \A d \in Level2Docs(jobs[k]) :
         d = StoredWithId(d[1][2])
    /\ \A n \in DOMAIN calls :
         \/ /\ calls[n].level = 1
            /\ calls[n].key \in Keys(db[<<"J","o","b">>][calls[n].job])
         \/ /\ calls[n].level = 2
            /\ \E m \in 1..(n - 1) :
                 /\ calls[m].level = 1
                 /\ calls[m].job = calls[n].job
                 /\ calls[m].op = "find_one"
                 /\ calls[m].ret # <<>>
                 /\ calls[n].key \in Keys(calls[m].ret[1])

\* A returned level-2 document holds a reference field whose target collection
\* and target document exist.
C6_Witness ==
    /\ Returned
    /\ err = ""
    /\ \E k \in DOMAIN returned : \E d \in Level2Docs(returned[k]) :
         \E n \in DOMAIN d :
            /\ EndsWith(d[n][1], <<"I","D">>)
            /\ BaseOf(d[n][1]) # <<>>
            /\ TargetOf(d[n][1]) \in DOMAIN db
            /\ Targets(TargetOf(d[n][1]), <<d[n][2]>>) # {}

\* C7: no lookup is issued and no field is attached for a reference field
\* whose derived collection name is not among list_collection_names().
C7_NoLookupWithoutCollection ==
    /\ \A n \in DOMAIN calls : TargetOf(calls[n].key) \in DOMAIN db
    /\ \A n \in DOMAIN writes : TargetOf(writes[n].key) \in DOMAIN db

\* A root document and a level-1 document with a reference field whose
\* collection does not exist have been resolved and returned.
C7_Witness ==
    /\ Returned
    /\ err = ""
    /\ \E k \in DOMAIN returned :
         /\ \E n \in DOMAIN returned[k] :
              /\ RefNamed(returned[k][n][1])
              /\ BaseOf(returned[k][n][1]) # <<>>
              /\ TargetOf(returned[k][n][1]) \notin DOMAIN db
         /\ \E n \in DOMAIN returned[k] :
              /\ IsDict(returned[k][n][2])
              /\ \E m \in DOMAIN returned[k][n][2].doc :
                   /\ RefNamed(returned[k][n][2].doc[m][1])
                   /\ TargetOf(returned[k][n][2].doc[m][1]) \notin DOMAIN db

\* The step looks at a reference field whose value has not the expected
\* shape: an ID field that holds no identifier, or an IDs field that holds no
\* sequence or a sequence with an element that is no identifier.
MalformedStep(level) ==
    /\ AtField(level)
    /\ BaseOf(FieldAt(level)[1]) # <<>>
    /\ \/ /\ EndsWith(FieldAt(level)[1], <<"I","D">>)
          /\ ~IsObjectId(FieldAt(level)[2])
       \/ /\ EndsWith(FieldAt(level)[1], <<"I","D","s">>)
          /\ \/ ~IsList(FieldAt(level)[2])
             \/ /\ IsList(FieldAt(level)[2])
                /\ \E v \in Range(FieldAt(level)[2].list) : ~IsObjectId(v)

\* The step does nothing but move on to the next field.
OnlyMovesOn(level) ==
    /\ IF level = 1
       THEN items' = Tail(items) /\ l1_items' = l1_items
       ELSE l1_items' = Tail(l1_items) /\ items' = items
    /\ UNCHANGED <<app_vars, db, client, limit, pc, jobs, i, field_name, level1_doc, calls,
                   writes, returned, err, rows,
                   csv_file, json_file, out>>

\* C8: a reference field whose value has not the expected shape (an ID field
\* holding no identifier, an IDs field holding no sequence of identifiers,
\* sequences with a non-identifier element included) adds no field and causes
\* no lookup, and the resolution goes on with the next field as if the field
\* were absent.
C8_MalformedValueSkipped ==
    [][\A level \in {1, 2} :
          (MalformedStep(level) /\ err' = "") => OnlyMovesOn(level)]_vars

\* What holds of the code: the same for an ID field that holds no identifier
\* and an IDs field that holds no sequence.
C8_NonIdentifierOrNonSequenceSkipped ==
    [][\A level \in {1, 2} :
          ( /\ MalformedStep(level)
            /\ EndsWith(FieldAt(level)[1], <<"I","D","s">>) => ~IsList(FieldAt(level)[2])
            /\ err' = "" ) => OnlyMovesOn(level)]_vars

\* No fetched root document has a field whose name ends in ID or IDs.
NoReferenceFields ==
    \A k \in DOMAIN Fetched : \A n \in DOMAIN Fetched[k] :
        ~RefNamed(Fetched[k][n][1])

\* C9: for root documents none of whose field names ends in ID or IDs,
\* get_flattened_job_data returns the documents as fetched and issues no
\* lookup.
C9_NoReferenceFieldsNoOp ==
    (Returned /\ NoReferenceFields) =>
        /\ returned = Fetched
        /\ calls = <<>>
        /\ writes = <<>>

\* Two root documents without reference fields, one with a field customerId,
\* have been returned.
C9_Witness ==
    /\ Returned
    /\ NoReferenceFields
    /\ Len(returned) = 2
    /\ Has(returned[1], <<"c","u","s","t","o","m","e","r","I","d">>)

\* C10: when the root aggregation or the listing of the collection names
\* raises, get_flattened_job_data catches the exception and returns an empty
\* sequence, not the root documents resolved so far.
C10_AccessorErrorReturnsEmpty ==
    err \in {"aggregate", "list_collection_names"} =>
        /\ Returned
        /\ returned = <<>>

\* Listing the collection names raised for the second root document, after a
\* field of the first was attached.
C10_Witness ==
    /\ pc = "done"
    /\ err = "list_collection_names"
    /\ i = 2
    /\ \E n \in DOMAIN writes : writes[n].job = 1

\* A lookup of a field (find or find_one) raised.
LookupRaised == err \in {"find", "find_one"}

\* The claim as stated: an exception raised by the lookup of a field is not
\* fatal; the field is skipped and every root document is still returned, with
\* the fields it was fetched with.
C11_LookupErrorSkipsField ==
    (Returned /\ LookupRaised) =>
        /\ Len(returned) = Len(Fetched)
        /\ \A k \in DOMAIN returned : \A n \in DOMAIN Fetched[k] :
             Has(returned[k], Fetched[k][n][1])

\* C11: an exception raised by the lookup of a field (the point lookup of an
\* ID field or the batched lookup of an IDs field, at either level) is caught
\* by the one handler of get_flattened_job_data, which returns at once with an
\* empty sequence: no root document is returned, resolved or not.
C11_LookupErrorReturnsEmpty ==
    LookupRaised =>
        /\ Returned
        /\ returned = <<>>
        /\ rows = <<>>

\* A point lookup raised at level 2 for the second root document, after a
\* field of the first and a field of the second were attached.
C11_Witness ==
    /\ pc = "done"
    /\ err = "find_one"
    /\ i = 2
    /\ \E n \in DOMAIN writes : writes[n].job = 1
    /\ \E n \in DOMAIN writes : writes[n].job = 2 /\ writes[n].level = 1
    /\ returned = <<>>

\* The lookups issued at level 1 for the k-th root document.
Level1Calls(k) ==
    {n \in DOMAIN calls : calls[n].level = 1 /\ calls[n].job = k}

\* The level-1 lookup that fetched the document the level-2 lookup n is for:
\* the last level-1 lookup before n.
Owner(n) ==
    CHOOSE m \in 1..(n - 1) :
        /\ calls[m].level = 1
        /\ \A j \in (m + 1)..(n - 1) : calls[j].level = 2

\* The lookups issued at level 2 for the document the lookup m fetched.
Level2Calls(m) ==
    {n \in DOMAIN calls : calls[n].level = 2 /\ Owner(n) = m}

\* The document, as fetched, whose field the lookup n is for.
DocOfCall(n) ==
    IF calls[n].level = 1
    THEN db[<<"J","o","b">>][calls[n].job]
    ELSE calls[Owner(n)].ret[1]

\* The positions of the reference-convention fields of a document.
RefFields(doc) == {n \in DOMAIN doc : RefNamed(doc[n][1])}

\* C12: for every root document and every level-1 document, the lookups
\* issued for it (find_one and find together) are no more than its fields
\* whose name ends in ID or IDs, no two of them are for the same field, and
\* the lookup for an IDs field is one find that carries the whole sequence the
\* field holds.
C12_LookupsBoundedByReferenceFields ==
    /\ \A k \in DOMAIN jobs :
         /\ Cardinality(Level1Calls(k)) <= Cardinality(RefFields(db[<<"J","o","b">>][k]))
         /\ \A m, n \in Level1Calls(k) : m # n => calls[m].key # calls[n].key
    /\ \A m \in DOMAIN calls :
         (calls[m].level = 1 /\ calls[m].ret # <<>>) =>
            /\ Cardinality(Level2Calls(m)) <=
                   IF calls[m].op = "find_one"
                   THEN Cardinality(RefFields(calls[m].ret[1])) ELSE 0
            /\ \A j, n \in Level2Calls(m) : j # n => calls[j].key # calls[n].key
    /\ \A n \in DOMAIN calls :
         /\ calls[n].level = 2 => \E m \in 1..(n - 1) : calls[m].level = 1
         /\ EndsWith(calls[n].key, <<"I","D","s">>) =>
              /\ calls[n].op = "find"
              /\ calls[n].arg = Get(DocOfCall(n), calls[n].key)

\* The call has returned after one find with two identifiers at level 1 and
\* one find with three identifiers at level 2.
C12_Witness ==
    /\ Returned
    /\ err = ""
    /\ \E n \in DOMAIN calls :
         /\ calls[n].level = 1 /\ calls[n].op = "find"
         /\ Len(calls[n].arg.list) = 2
    /\ \E n \in DOMAIN calls :
         /\ calls[n].level = 2 /\ calls[n].op = "find"
         /\ Len(calls[n].arg.list) = 3

\* The list fields of a document and of the documents nested in it, each with
\* the prefix flatten_nested_document reaches it with.
ListFields(doc) ==
    {<<(<<>>), doc[n]>> : n \in {m \in DOMAIN doc : DOMAIN doc[m][2] = {"list"}}}
    \cup UNION {{<<doc[n][1], doc[n][2].doc[m]>> :
                    m \in {j \in DOMAIN doc[n][2].doc :
                             DOMAIN doc[n][2].doc[j][2] = {"list"}}} :
                 n \in {m \in DOMAIN doc : DOMAIN doc[m][2] = {"doc"}}}

\* The key of field `key` under the prefix.
KeyUnder(prefix, key) ==
    IF prefix = <<>> THEN key ELSE prefix \o <<"_">> \o key

\* key starts with prefix.
HasPrefix(key, prefix) ==
    /\ Len(key) >= Len(prefix)
    /\ SubSeq(key, 1, Len(prefix)) = prefix

\* The smaller of two numbers.
Min(m, n) == IF m < n THEN m ELSE n

\* What flatten_nested_document emits for one field under a prefix.
Emitted(prefix, field) == FlattenItems(<<field>>, prefix, <<>>)

\* C13: for a field k holding a sequence of n nested documents,
\* flatten_nested_document emits <prefix>_k_count = n and the fields of the
\* items at the indices below min(n, 3) under <prefix>_k_<index>_; no key of
\* the row starts with <prefix>_k_<index> for an index from 3 on; and the row
\* holds every emitted key.
C13_CountAndFirstThreeItems ==
    pc = "flat" =>
        \A site \in ListFields(returned[1]) :
            LET prefix == site[1]
                k == site[2][1]
                list_items == site[2][2].list
                n == Len(list_items)
                new_key == KeyUnder(prefix, k)
                emitted == Emitted(prefix, site[2])
            IN  (\A m \in DOMAIN list_items : DOMAIN list_items[m] = {"doc"}) =>
                  /\ Has(emitted, new_key \o <<"_","c","o","u","n","t">>)
                  /\ Get(emitted, new_key \o <<"_","c","o","u","n","t">>) = Number(n)
                  /\ \A index \in 0..(n - 1) :
                       LET item == list_items[index + 1].doc
                           item_key == new_key \o <<"_">> \o IndexString(index)
                       IN  IF index < Min(n, 3)
                           THEN \A m \in DOMAIN item :
                                  IF DOMAIN item[m][2] = {"list"}
                                  THEN Has(emitted, KeyUnder(item_key, item[m][1])
                                                    \o <<"_","c","o","u","n","t">>)
                                  ELSE /\ Has(emitted, KeyUnder(item_key, item[m][1]))
                                       /\ Get(emitted, KeyUnder(item_key, item[m][1]))
                                          = item[m][2]
                           ELSE \A key \in Keys(emitted) \cup Keys(rows[1]) :
                                  ~HasPrefix(key, item_key)
                  /\ \A key \in Keys(emitted) :
                       /\ Has(rows[1], key)
                       /\ \/ Get(rows[1], key) = Get(emitted, key)
                          \/ Has(returned[1], key)

\* A document nested in field a holds a field k with five documents, and the
\* row has a_k_count = 5 and a key for the item at index 2.
C13_Witness ==
    /\ pc = "flat"
    /\ Has(returned[1], <<"a">>)
    /\ DOMAIN Get(returned[1], <<"a">>) = {"doc"}
    /\ Has(Get(returned[1], <<"a">>).doc, <<"k">>)
    /\ Len(Get(Get(returned[1], <<"a">>).doc, <<"k">>).list) = 5
    /\ \A item \in Range(Get(Get(returned[1], <<"a">>).doc, <<"k">>).list) :
         DOMAIN item = {"doc"} /\ item.doc # <<>>
    /\ Get(rows[1], <<"a","_","k","_","c","o","u","n","t">>) = Number(5)
    /\ Has(rows[1], <<"a","_","k","_","2","_","x">>)

\* A value that is neither a document nor a sequence.
IsScalar(value) == DOMAIN value \in {{"int"}, {"str"}, {"oid"}}

\* C14: every value of a row flatten_nested_document returns is a scalar or a
\* count, never a document or a sequence, whatever the document holds.
C14_RowValuesAreScalar ==
    \A n \in DOMAIN rows : \A m \in DOMAIN rows[n] : IsScalar(rows[n][m][2])

\* The flattened document holds a list with a scalar first and then an empty
\* document, a list and a document holding a list.
C14_Witness ==
    /\ pc = "flat"
    /\ Has(returned[1], <<"k">>)
    /\ Len(Get(returned[1], <<"k">>).list) = 4
    /\ Get(returned[1], <<"k">>).list[1] = Number(1)
    /\ Get(returned[1], <<"k">>).list[2] = Dict(<<>>)
    /\ DOMAIN Get(returned[1], <<"k">>).list[3] = {"list"}
    /\ Get(returned[1], <<"k">>).list[4] =
          Dict(<< <<<<"x">>, Text("b")>>, <<<<"y">>, ListOf(<<Number(1)>>)>> >>)
    /\ rows[1] # <<>>

RECURSIVE LeavesOf(_, _)
RECURSIVE Joined(_)
RECURSIVE UniqueFieldNames(_)

\* The paths of the leaves flatten_nested_document emits for a value reached
\* by `path`: a scalar is a leaf, a list has the leaf count and the leaves of
\* its first three items when they are expanded, a document has the leaves of
\* its fields.
LeavesOf(value, path) ==
    IF DOMAIN value = {"doc"}
    THEN UNION {LeavesOf(value.doc[n][2], Append(path, value.doc[n][1])) :
                  n \in DOMAIN value.doc}
    ELSE IF DOMAIN value = {"list"}
    THEN {Append(path, <<"c","o","u","n","t">>)}
         \cup (IF value.list # <<>> /\ DOMAIN value.list[1] = {"doc"}
               THEN UNION {IF DOMAIN value.list[n] = {"doc"}
                           THEN LeavesOf(value.list[n],
                                         Append(path, IndexString(n - 1)))
                           ELSE {} :
                             n \in 1..Min(Len(value.list), 3)}
               ELSE {})
    ELSE {path}

\* The key of a path: its names joined by "_".
Joined(path) ==
    IF path = <<>> THEN <<>>
    ELSE IF Len(path) = 1 THEN path[1]
    ELSE path[1] \o <<"_">> \o Joined(Tail(path))

\* The field names are unique within the document and within each document
\* nested in it.
UniqueFieldNames(value) ==
    IF DOMAIN value = {"doc"}
    THEN /\ Len(value.doc) = Cardinality(Keys(value.doc))
         /\ \A n \in DOMAIN value.doc : UniqueFieldNames(value.doc[n][2])
    ELSE IF DOMAIN value = {"list"}
    THEN \A n \in DOMAIN value.list : UniqueFieldNames(value.list[n])
    ELSE TRUE

\* C15: for a document whose field names are unique within each (nested)
\* document, flatten_nested_document gives distinct leaves (scalars and
\* sequence counts at distinct paths) distinct keys, so that the row has one
\* key for each leaf and no emitted value is overwritten.
C15_DistinctLeavesDistinctKeys ==
    (pc = "flat" /\ UniqueFieldNames(Dict(returned[1]))) =>
        LET leaves == LeavesOf(Dict(returned[1]), <<>>)
        IN  /\ \A p, q \in leaves : p # q => Joined(p) # Joined(q)
            /\ Len(rows[1]) = Cardinality(leaves)

\* What holds of the code: the keys of the row are the keys of the leaves,
\* two leaves or more to a key when their paths join to the same string.
C15_RowKeysAreLeafKeys ==
    pc = "flat" =>
        Keys(rows[1]) = {Joined(p) : p \in LeavesOf(Dict(returned[1]), <<>>)}

\* C16: when the root fetch (the aggregation) raises, get_flattened_job_data
\* catches the exception, prints it and returns an empty sequence, and main
\* goes on with it: the rows are empty, and the CSV and the JSON file, once
\* written, hold no record of any job.
C16_RootFetchFailureExportsNothing ==
    err = "aggregate" =>
        /\ Returned
        /\ Line("Error executing aggregation", "aggregate") \in Range(out)
        /\ returned = <<>>
        /\ rows = <<>>
        /\ csv_file # <<>> => csv_file[1].records = <<>>
        /\ json_file # <<>> => json_file[1] = <<>>
        /\ pc = "json" => csv_file # <<>> /\ json_file # <<>>

\* The aggregation raised on a Job collection of two documents, and both
\* files have been written without a record.
C16_Witness ==
    /\ err = "aggregate"
    /\ Len(db[<<"J","o","b">>]) = 2
    /\ pc = "json"
    /\ csv_file = <<[columns |-> <<>>, records |-> <<>>]>>
    /\ json_file = << <<>> >>

\* The one-job scenario of the specification's multi-reference example.
TechniciansExample ==
    /\ pc = "flat"
    /\ err = ""
    /\ db[<<"J","o","b">>] = << << <<<<"_","i","d">>, ObjectId("j1")>>,
                          <<<<"t","e","c","h","n","i","c","i","a","n","P","r","o","f","i","l","e","I","D","s">>,
                            ListOf(<<ObjectId("t1"), ObjectId("t2")>>)>> >> >>
    /\ Targets(<<"T","e","c","h","n","i","c","i","a","n","P","r","o","f","i","l","e">>, <<ObjectId("t1"), ObjectId("t2")>>)
         = {TechnicianProfile_t1}

\* C17: in the multi-reference example (a root document with
\* technicianProfileIDs: [t1, t2], of which TechnicianProfile holds t1 only)
\* the returned root has a field technicians holding the one-element sequence
\* of t1's document, and the flattened root has technicians_count = 1 and
\* technicians_0_<field> for the fields of t1.
C17_TechniciansExample ==
    TechniciansExample =>
        /\ Has(returned[1], <<"t","e","c","h","n","i","c","i","a","n","s">>)
        /\ Get(returned[1], <<"t","e","c","h","n","i","c","i","a","n","s">>) = ListOf(<<Dict(TechnicianProfile_t1)>>)
        /\ Has(rows[1], <<"t","e","c","h","n","i","c","i","a","n","s","_","c","o","u","n","t">>)
        /\ Get(rows[1], <<"t","e","c","h","n","i","c","i","a","n","s","_","c","o","u","n","t">>) = Number(1)
        /\ Has(rows[1], <<"t","e","c","h","n","i","c","i","a","n","s","_","0","_","_","i","d">>)
        /\ Has(rows[1], <<"t","e","c","h","n","i","c","i","a","n","s","_","0","_","n","a","m","e">>)
        /\ Get(rows[1], <<"t","e","c","h","n","i","c","i","a","n","s","_","0","_","n","a","m","e">>) = Text("Tee")

\* What the code returns in the example: the same sequence under the field
\* name technicianprofiles.
C17_TechniciansExampleLowerCaseBase ==
    TechniciansExample =>
        /\ Keys(returned[1]) = {<<"_","i","d">>, <<"t","e","c","h","n","i","c","i","a","n","P","r","o","f","i","l","e","I","D","s">>, <<"t","e","c","h","n","i","c","i","a","n","p","r","o","f","i","l","e","s">>}
        /\ Get(returned[1], <<"t","e","c","h","n","i","c","i","a","n","p","r","o","f","i","l","e","s">>)
             = ListOf(<<Dict(TechnicianProfile_t1)>>)
        /\ Get(rows[1], <<"t","e","c","h","n","i","c","i","a","n","p","r","o","f","i","l","e","s","_","c","o","u","n","t">>) = Number(1)
        /\ Get(rows[1], <<"t","e","c","h","n","i","c","i","a","n","p","r","o","f","i","l","e","s","_","0","_","_","i","d">>) = ObjectId("t1")
        /\ Get(rows[1], <<"t","e","c","h","n","i","c","i","a","n","p","r","o","f","i","l","e","s","_","0","_","n","a","m","e">>) = Text("Tee")

\* The fields of a root document that hold one document.
SingleDocs(job) == {n \in DOMAIN job : DOMAIN job[n][2] = {"doc"}}

\* The fields of a root document that hold a sequence of documents.
DocLists(job) ==
    {n \in DOMAIN job :
        /\ DOMAIN job[n][2] = {"list"}
        /\ \A m \in DOMAIN job[n][2].list : DOMAIN job[n][2].list[m] = {"doc"}}

\* The reference field f of a fetched document is resolved in doc: an ID field
\* with an identifier whose target exists has the target attached, an IDs
\* field with a sequence has the sequence of its targets attached.
ResolvedIn(doc, f) ==
    LET attached == Lower(BaseOf(f[1]))
    IN  /\ ( /\ EndsWith(f[1], <<"I","D">>)
             /\ TargetOf(f[1]) \in DOMAIN db
             /\ IsObjectId(f[2])
             /\ Targets(TargetOf(f[1]), <<f[2]>>) # {} ) =>
                /\ Has(doc, attached)
                /\ DOMAIN Get(doc, attached) = {"doc"}
                /\ Get(doc, attached).doc \in Targets(TargetOf(f[1]), <<f[2]>>)
        /\ ( /\ EndsWith(f[1], <<"I","D","s">>)
             /\ TargetOf(f[1]) \in DOMAIN db
             /\ IsList(f[2]) ) =>
                /\ Has(doc, attached \o <<"s">>)
                /\ DOMAIN Get(doc, attached \o <<"s">>) = {"list"}
                /\ {e.doc : e \in Range(Get(doc, attached \o <<"s">>).list)}
                     = Targets(TargetOf(f[1]), f[2].list)

\* C18: in what get_flattened_job_data returns, every
\* document attached to a root through a single reference has each of its own
\* reference fields resolved, while the documents of a sequence attached
\* through a multi-reference are as they are stored, and every level-2 lookup
\* is for a document a point lookup fetched.
C18_SingleDocsRecursedListsNot ==
    Returned =>
        /\ \A k \in DOMAIN returned :
             /\ \A n \in SingleDocs(returned[k]) :
                  LET doc == returned[k][n][2].doc
                      fetched == StoredWithId(doc[1][2])
                  IN  \A m \in RefFields(fetched) : ResolvedIn(doc, fetched[m])
             /\ \A n \in DocLists(returned[k]) :
                  \A e \in Range(returned[k][n][2].list) :
                     e.doc = StoredWithId(e.doc[1][2])
        /\ \A n \in DOMAIN calls :
             calls[n].level = 2 => calls[Owner(n)].op = "find_one"

\* A returned root holds a document attached through a single reference, with
\* a reference of its own resolved, and a sequence attached through a
\* multi-reference with a document whose customerID could be resolved.
C18_Witness ==
    /\ Returned
    /\ err = ""
    /\ \E k \in DOMAIN returned :
         /\ \E n \in SingleDocs(returned[k]) :
              \E m \in SingleDocs(returned[k][n][2].doc) : TRUE
         /\ \E n \in DocLists(returned[k]) :
              \E e \in Range(returned[k][n][2].list) :
                 /\ Has(e.doc, <<"c","u","s","t","o","m","e","r","I","D">>)
                 /\ Targets(<<"C","u","s","t","o","m","e","r">>, <<Get(e.doc, <<"c","u","s","t","o","m","e","r","I","D">>)>>) # {}

\* Every field of original is in doc with its original value.
FieldsKept(original, doc) ==
    \A n \in DOMAIN original :
        /\ Has(doc, original[n][1])
        /\ Get(doc, original[n][1]) = original[n][2]

\* The writes n and m are to the same document: the same root document, or
\* the level-1 document of the same level-1 write.
SameDocument(m, n) ==
    /\ writes[m].job = writes[n].job
    /\ writes[m].level = writes[n].level
    /\ writes[m].level = 2 =>
         \A j \in (Min(m, n) + 1)..(IF m < n THEN n ELSE m) : writes[j].level = 2

\* C19: resolution only adds fields: in what get_flattened_job_data returns,
\* every root document and every level-1 document attached through a single
\* reference holds each field it was fetched with, reference field or not,
\* with the value it was fetched with, and no two reference fields of one
\* document are attached under the same field name.
C19_ResolutionOnlyAddsFields ==
    Returned =>
        /\ \A k \in DOMAIN returned :
             /\ FieldsKept(Fetched[k], returned[k])
             /\ \A n \in SingleDocs(returned[k]) :
                  FieldsKept(StoredWithId(returned[k][n][2].doc[1][2]),
                             returned[k][n][2].doc)
        /\ \A m, n \in DOMAIN writes :
             (m # n /\ SameDocument(m, n) /\ writes[m].key # writes[n].key) =>
                 writes[m].field # writes[n].field

\* What holds of the code: every fetched field whose name is not the attach
\* name of a reference field of the same document is kept with its value.
C19_FieldsKeptButAttachNames ==
    Returned =>
        \A k \in DOMAIN returned : \A n \in DOMAIN Fetched[k] :
            (\A m \in DOMAIN writes :
                ~(writes[m].job = k /\ writes[m].level = 1
                  /\ writes[m].field = Fetched[k][n][1])) =>
                /\ Has(returned[k], Fetched[k][n][1])
                /\ Get(returned[k], Fetched[k][n][1]) = Fetched[k][n][2]

\* An accessor call raised.
AccessorRaised ==
    err \in {"aggregate", "list_collection_names", "find", "find_one"}

\* C20: whatever the field names of the root documents, a field named ID or
\* IDs included, when no accessor call raises get_flattened_job_data returns
\* one document for each root document the aggregation returned, in the same
\* order, and no more than limit of them.
C20_OneDocumentPerRoot ==
    (Returned /\ ~AccessorRaised) =>
        /\ Len(returned) = Len(Fetched)
        /\ \A k \in DOMAIN returned :
             Get(returned[k], <<"_","i","d">>) = Get(Fetched[k], <<"_","i","d">>)
        /\ Len(returned) <= limit

\* What holds of the code: the same when nothing at all raises, which leaves
\* out the documents with a field named ID or IDs.
C20_OneDocumentPerRootUnlessRaised ==
    (Returned /\ err = "") =>
        /\ Len(returned) = Len(Fetched)
        /\ \A k \in DOMAIN returned :
             Get(returned[k], <<"_","i","d">>) = Get(Fetched[k], <<"_","i","d">>)
        /\ Len(returned) <= limit

\* main has returned: past line 290, or through its handler (lines 292-293).
MainReturned == pc \in {"exit", "failed"}

\* C21: every execution of main that connects successfully has closed the
\* client connection when main returns, on every path: the Job collection
\* absent, the Job collection empty, resolution or an export step raising.
C21_ClientClosedWhenMainReturns ==
    (MainReturned /\ client # "none") => client = "closed"

\* The Selected Period as written for a start date and an end date.
PeriodText(period) == <<Strftime(period[1]), Strftime(period[2])>>

\* C22: after the user clicks a Quick Select button, the script run that
\* follows (the one st.experimental_rerun() asks for) shows that button's
\* period as the Selected Period and loads the job and the review data for
\* that period.
C22_QuickSelectPeriodShownAndLoaded ==
    run = "rerun" =>
        /\ selected_period = PeriodText(QuickSelect(clicked))
        /\ loaded = <<QuickSelect(clicked), QuickSelect(clicked)>>

\* What the run that follows a click does show and load: the period held by
\* the Start Date and End Date inputs.
C22_RerunShowsInputsPeriod ==
    run = "rerun" =>
        /\ selected_period = PeriodText(<<start_date_input, end_date_input>>)
        /\ loaded = << <<start_date_input, end_date_input>>,
                       <<start_date_input, end_date_input>> >>
============================================================================
